---- MODULE Spec2Model ----
(***************************************************************************)
(* Assignment / progress tracking and response intake of the labeling      *)
(* backend (AssignmentService, ResponseService and their routers), over    *)
(* the tables task_assignments and question_responses of the store.        *)
(*                                                                         *)
(* Spec  : every request handler runs to completion (one action each);     *)
(*         its response is then delivered to the caller.                   *)
(* SpecC : detailed submissions run one store call at a time, so that      *)
(*         requests interleave between their store calls.                  *)
(* SpecT : task management (TaskService and its router), every handler     *)
(*         running to completion.                                          *)
(* SpecTC: task creation and renaming one store call at a time.            *)
(* SpecA : SpecT plus the admin-only endpoints called by non-admins.       *)
(* SpecR : racing first-time submissions and the progress update.          *)
(* SpecF : SpecC's submissions with store calls that may raise.            *)
(* SpecD : task deletion one store call at a time, run alone.              *)
(* SpecDC: task deletion one store call at a time, among other requests.   *)
(***************************************************************************)
EXTENDS Integers, FiniteSets, Sequences, TLC

\* ------------------------------------------------------------------ bounds
MaxAssignments == 2     \* assignment rows ever inserted
MaxResponses == 2       \* response rows ever inserted
MaxRows == 3            \* rows ever inserted, both tables together
MaxRange == 2           \* largest 1-based range endpoint a request carries
MaxClock == 1           \* distinct values utcnow() takes
NProc == 2              \* request workers of SpecC
MaxTasks == 3           \* task rows ever inserted

NULL == 0               \* SQL NULL / Python None for integer columns
NoQuestion == 0 - 1     \* "no question index" in a request outcome

\* ------------------------------------------------------------ input sets
TaskIds == {"t1", "t2"}
\* the ids the store gives to the tasks it inserts, in order
TaskIdOf == <<"t1", "t2", "t3", "t4", "t5">>
Titles == {"A", "B"}
NoTitle == "<None>"        \* TaskUpdate.title left out of the request
UserIds == {"adm", "u1", "u9"}
Labelers == {"u1", "u9"}
Timestamps == 1..MaxClock
RangeInputs == 0..MaxRange
QuestionInputs == (0 - 1)..MaxRange
ProgressInputs == {0 - 1, 0, MaxRange}
SimpleQuestionInputs == {0, MaxRange}
ConfidenceInputs == {NULL, 0 - 1, 3, 6}
AssignmentIds == 1..MaxAssignments
ResponsesInputs ==
    { <<>>, ("A" :> <<>>), ("A" :> <<"x">>), ("A" :> <<"y">>) }
ValidResponses == { ("A" :> <<"x">>), ("A" :> <<"y">>) }

\* Requests POST /assignments/task/{task_id}/assign is tried with:
\* <<caller, task_id, user_id_to_assign, range_start, range_end>>
AssignInputs ==
    ({"adm"} \X {"t1"} \X {"u1"} \X RangeInputs \X RangeInputs)
    \cup ({"adm"} \X {"t2"} \X Labelers \X {0, 1} \X {1})
    \cup ({"adm"} \X {"t1"} \X {"u9"} \X {1} \X {1})
    \cup ({"u1", "u9"} \X {"t1"} \X {"u1"} \X {1} \X {1})

\* Requests PUT /assignments/{assignment_id}/status is tried with:
\* <<caller, assignment_id, is_active>>
StatusInputs ==
    ({"adm"} \X AssignmentIds \X BOOLEAN) \cup ({"u1"} \X {1} \X {FALSE})

\* Requests PUT /assignments/{assignment_id}/progress is tried with:
\* <<caller, assignment_id, completed_labels>>
ProgressRequests ==
    ({"adm"} \X AssignmentIds \X ProgressInputs) \cup ({"u1"} \X {1} \X {0})

\* Requests POST /responses/detailed is tried with:
\* <<user_id, task_id, question_id, responses, confidence_level>>
SubmitInputs ==
    ({"u1"} \X {"t1"} \X QuestionInputs \X ValidResponses \X {NULL})
    \cup ({"u1"} \X {"t1"} \X {0} \X ResponsesInputs \X {NULL})
    \cup ({"u1"} \X {"t1"} \X {0} \X {("A" :> <<"x">>)} \X ConfidenceInputs)
    \cup ({"adm", "u9"} \X {"t1"} \X {0} \X {("A" :> <<"x">>)} \X {NULL})
    \cup ({"u1"} \X {"t2"} \X {0} \X {("A" :> <<"x">>)} \X {NULL})

\* Requests POST /responses/ is tried with:
\* <<caller, task_assignment_id, question_id, selected_choices, confidence_level>>
RespondInputs ==
    ({"u1"} \X AssignmentIds \X SimpleQuestionInputs \X {<<"x">>} \X {NULL})
    \cup ({"u1"} \X {1} \X {0} \X {<<>>} \X {NULL})
    \cup ({"u1"} \X {1} \X {0} \X {<<"x">>} \X ConfidenceInputs)
    \cup ({"u9"} \X {1} \X {0} \X {<<"x">>} \X {NULL})

\* The user_profiles table: id -> role ("u9" has no profile).
user_profiles == ("adm" :> "admin") @@ ("u1" :> "labeler")

VARIABLES
    tasks,               \* table tasks: id -> row
    next_task_id,        \* task ids the store has handed out so far (+1)
    task_assignments,    \* table task_assignments: id -> row
    question_responses,  \* table question_responses: id -> row
    next_assignment_id,  \* ids the store has handed out so far (+1)
    next_response_id,
    requests,            \* SpecC: worker -> in-flight submission
    last                 \* the response on its way to the caller (or NoCall)

vars == <<tasks, next_task_id, task_assignments, question_responses, next_assignment_id,
          next_response_id, requests, last>>

store == <<tasks, task_assignments, question_responses>>

\* ------------------------------------------- in-flight submission (SpecC)
Workers == 1..NProc

\* pc: the store call the worker makes next
\*   "lookup"   line 68   select the rows of (assignment, question)
\*   "write"    line 93 / 99   update the row found, or insert
\*   "count"    assignment_service.py line 369   select the rows to count
\*   "progress" assignment_service.py line 372   write completed_labels
\*   "done"     the return at line 109 or the raise of line 129
Idle ==
    [pc |-> "idle", user_id |-> "", question_id |-> NoQuestion,
     responses |-> <<>>, assignment_id |-> NULL, existing |-> NULL,
     count |-> 0, result |-> "none"]

\* a row of table tasks (the columns the handlers modelled here read)
TaskRow(title, created_by) == [title |-> title, created_by |-> created_by]

\* ------------------------------------------------------- request outcome
NoCall ==
    [op |-> "none", result |-> "none", assignment_id |-> NULL,
     question_id |-> NoQuestion, responses |-> <<>>, is_update |-> FALSE,
     task_ids |-> {}]

Outcome(op, result) == [NoCall EXCEPT !.op = op, !.result = result]

\* --------------------------------------------------------- models/tasks.py
\* variant: a start of 0 passes
validate_range_start_NonNegative(v) == v >= 0

validate_range_start(v) == v > 0

\* variant: the end must lie strictly beyond the start
validate_range_end_Strict(v, start_ok, start) ==
    /\ v > 0
    /\ v > (IF start_ok THEN start ELSE 1)

\* values holds question_range_start only when its own validator passed
validate_range_end(v, start_ok, start) ==
    /\ v > 0
    /\ v >= (IF start_ok THEN start ELSE 1)

TaskAssignmentRequest(rs, re) ==
    /\ validate_range_start(rs)
    /\ validate_range_end(re, validate_range_start(rs), rs)

\* variant: only the map itself must be non-empty
validate_responses_NonEmptyMap(v) == DOMAIN v # {}

validate_responses(v) ==
    /\ DOMAIN v # {}
    /\ \A category \in DOMAIN v : Len(v[category]) > 0

validate_confidence_level(v) == v = NULL \/ (v >= 1 /\ v <= 5)

QuestionResponseDetailedCreate(responses, confidence) ==
    /\ validate_responses(responses)
    /\ validate_confidence_level(confidence)

\* ---------------------------------------------------------- auth / lookups
get_current_user(caller) == caller \in DOMAIN user_profiles

\* variant: any caller with a profile passes
require_admin_AnyUser(caller) == get_current_user(caller)

require_admin(caller) ==
    /\ get_current_user(caller)
    /\ user_profiles[caller] = "admin"

\* variant: the task lookup always finds a row
get_task_by_id_Any(task_id) == TRUE

get_task_by_id(task_id) == task_id \in DOMAIN tasks

assignment_total(a) == a.question_range_end - a.question_range_start + 1

\* rows of task_assignments with .eq(user_id).eq(task_id)
AssignmentsFor(user_id, task_id) ==
    { id \in DOMAIN task_assignments :
        /\ task_assignments[id].user_id = user_id
        /\ task_assignments[id].task_id = task_id }

\* variant: the lookup of an existing row finds nothing
ExistingResponses_None(resps, assignment_id, question_id) == {}

\* rows of question_responses with .eq(task_assignment_id).eq(question_id)
ExistingResponses(resps, assignment_id, question_id) ==
    { id \in DOMAIN resps :
        /\ resps[id].task_assignment_id = assignment_id
        /\ resps[id].question_id = question_id }

\* rows of question_responses with .eq(task_assignment_id)
ResponsesOf(resps, assignment_id) ==
    { id \in DOMAIN resps : resps[id].task_assignment_id = assignment_id }

\* ------------------------------------------------ AssignmentService writes
InsertAssignment(asgs, id, task_id, user_id, rs, re) ==
    asgs @@ (id :> [task_id |-> task_id, user_id |-> user_id,
                    question_range_start |-> rs, question_range_end |-> re,
                    completed_labels |-> 0, is_active |-> TRUE,
                    completed_at |-> NULL])

\* update({"completed_labels": n}).eq("id", id): no row, no effect
SetCompletedLabels(asgs, id, n) ==
    IF id \in DOMAIN asgs
    THEN [asgs EXCEPT ![id].completed_labels = n]
    ELSE asgs

\* variant: the count is not written back
ProgressFromResponse_NoWrite(asgs, resps, id) == asgs

\* variant: the counter is incremented instead of recounted
ProgressFromResponse_Increment(asgs, resps, id) ==
    IF id \in DOMAIN asgs
    THEN SetCompletedLabels(asgs, id, asgs[id].completed_labels + 1)
    ELSE asgs

\* variant: every stored response is counted, whatever assignment it is for
ProgressFromResponse_CountAll(asgs, resps, id) ==
    SetCompletedLabels(asgs, id, Cardinality(DOMAIN resps))

\* update_assignment_progress_from_response: count the rows, write the count
ProgressFromResponse(asgs, resps, id) ==
    SetCompletedLabels(asgs, id, Cardinality(ResponsesOf(resps, id)))

\* ------------------------------------------------- ResponseService checks
\* variant: the window's upper end is one index too wide
SubmitCheck_RangeEndInclusive(a, question_id) ==
    IF ~a.is_active THEN "AssignmentInactive"
    ELSE IF a.completed_labels >= assignment_total(a) THEN "AssignmentComplete"
    ELSE IF a.completed_labels + 1 > assignment_total(a) THEN "ExceedsLimit"
    ELSE IF question_id < a.question_range_start - 1
            \/ question_id > a.question_range_end THEN "OutOfRange"
    ELSE "ok"

\* variant: a paused assignment is not turned away
SubmitCheck_NoActiveCheck(a, question_id) ==
    IF a.completed_labels >= assignment_total(a) THEN "AssignmentComplete"
    ELSE IF a.completed_labels + 1 > assignment_total(a) THEN "ExceedsLimit"
    ELSE IF question_id < a.question_range_start - 1
            \/ question_id >= a.question_range_end THEN "OutOfRange"
    ELSE "ok"

\* variant: a completed assignment is not turned away
SubmitCheck_NoCompleteCheck(a, question_id) ==
    IF ~a.is_active THEN "AssignmentInactive"
    ELSE IF question_id < a.question_range_start - 1
            \/ question_id >= a.question_range_end THEN "OutOfRange"
    ELSE "ok"

\* lines 45-65 of create_detailed_question_response, on the row read
SubmitCheck(a, question_id) ==
    IF ~a.is_active THEN "AssignmentInactive"
    ELSE IF a.completed_labels >= assignment_total(a) THEN "AssignmentComplete"
    ELSE IF a.completed_labels + 1 > assignment_total(a) THEN "ExceedsLimit"
    ELSE IF question_id < a.question_range_start - 1
            \/ question_id >= a.question_range_end THEN "OutOfRange"
    ELSE "ok"

ResponseRow(question_id, user_id, assignment_id, responses) ==
    [question_id |-> question_id, user_id |-> user_id,
     task_assignment_id |-> assignment_id, selected_choices |-> <<>>,
     responses |-> responses]

\* the bounds of the model: ids still to hand out
CanInsertAssignment ==
    /\ next_assignment_id <= MaxAssignments
    /\ (next_assignment_id - 1) + (next_response_id - 1) < MaxRows

CanInsertResponse ==
    /\ next_response_id <= MaxResponses
    /\ (next_assignment_id - 1) + (next_response_id - 1) < MaxRows

Init ==
    /\ tasks = ("t1" :> TaskRow("A", "adm"))
    /\ next_task_id = 2
    /\ task_assignments = <<>>
    /\ question_responses = <<>>
    /\ next_assignment_id = 1
    /\ next_response_id = 1
    /\ requests = [p \in Workers |-> Idle]
    /\ last = NoCall

\* ------------------------------------------------- POST /assignments/task/{task_id}/assign
assign_task(caller, task_id, user_id_to_assign, rs, re) ==
    /\ last = NoCall
    /\ CanInsertAssignment
    /\ UNCHANGED <<tasks, next_task_id, question_responses, next_response_id, requests>>
    /\ IF ~require_admin(caller)
       THEN /\ last' = Outcome("assign", "Forbidden")
            /\ UNCHANGED <<task_assignments, next_assignment_id>>
       ELSE IF ~TaskAssignmentRequest(rs, re)
       THEN /\ last' = Outcome("assign", "InvalidRange")
            /\ UNCHANGED <<task_assignments, next_assignment_id>>
       ELSE IF ~get_task_by_id(task_id) \/ user_id_to_assign \notin DOMAIN user_profiles
       THEN /\ last' = Outcome("assign", "NotFound")
            /\ UNCHANGED <<task_assignments, next_assignment_id>>
       ELSE /\ task_assignments' =
                  InsertAssignment(task_assignments, next_assignment_id,
                                   task_id, user_id_to_assign, rs, re)
            /\ next_assignment_id' = next_assignment_id + 1
            /\ last' = Outcome("assign", "ok")

\* ------------------------------------------------- PUT /assignments/{assignment_id}/status
\* (the column updated_at, also written here, is not modelled)
update_assignment_status(caller, assignment_id, is_active) ==
    /\ last = NoCall
    /\ UNCHANGED <<tasks, next_task_id, question_responses, next_assignment_id,
                   next_response_id, requests>>
    /\ IF ~require_admin(caller)
       THEN /\ last' = Outcome("status", "Forbidden")
            /\ UNCHANGED task_assignments
       ELSE IF assignment_id \notin DOMAIN task_assignments
       \* the router's own 404 is raised inside its try block and caught by
       \* its "except Exception", which answers 500
       THEN /\ last' = Outcome("status", "ServerError")
            /\ UNCHANGED task_assignments
       ELSE /\ task_assignments' =
                  [task_assignments EXCEPT ![assignment_id].is_active = is_active]
            /\ last' = Outcome("status", "ok")

\* ------------------------------------------------- PUT /assignments/{assignment_id}/progress
update_assignment_progress(caller, assignment_id, completed_labels) ==
    /\ last = NoCall
    /\ UNCHANGED <<tasks, next_task_id, question_responses, next_assignment_id,
                   next_response_id, requests>>
    /\ IF ~require_admin(caller)
       THEN /\ last' = Outcome("progress", "Forbidden")
            /\ UNCHANGED task_assignments
       ELSE IF assignment_id \notin DOMAIN task_assignments
       THEN /\ last' = Outcome("progress", "ServerError")
            /\ UNCHANGED task_assignments
       ELSE LET written == SetCompletedLabels(task_assignments, assignment_id,
                                              completed_labels)
                assignment == written[assignment_id]
            IN  /\ IF assignment.completed_labels >= assignment_total(assignment)
                   THEN \E utcnow \in Timestamps :
                        task_assignments' =
                           [written EXCEPT ![assignment_id].completed_at = utcnow]
                   ELSE task_assignments' = written
                /\ last' = Outcome("progress", "ok")

\* ------------------------------------------------- AssignmentService.update_assignment_progress_from_response
update_assignment_progress_from_response(assignment_id) ==
    /\ last = NoCall
    /\ task_assignments' =
          ProgressFromResponse(task_assignments, question_responses, assignment_id)
    /\ last' = [Outcome("recompute", "ok") EXCEPT !.assignment_id = assignment_id]
    /\ UNCHANGED <<tasks, next_task_id, question_responses, next_assignment_id,
                   next_response_id, requests>>

\* ------------------------------------------------- POST /responses/
\* The row references a stored assignment: what the store does with a
\* dangling task_assignment_id is decided by its schema, not by this code.
create_question_response(caller, assignment_id, question_id, selected_choices, confidence) ==
    /\ last = NoCall
    /\ UNCHANGED <<tasks, next_task_id, task_assignments, next_assignment_id, requests>>
    /\ IF ~get_current_user(caller)
       THEN /\ last' = Outcome("respond", "Unauthorized")
            /\ UNCHANGED <<question_responses, next_response_id>>
       ELSE IF Len(selected_choices) = 0 \/ ~validate_confidence_level(confidence)
       THEN /\ last' = Outcome("respond", "InvalidAnswer")
            /\ UNCHANGED <<question_responses, next_response_id>>
       ELSE /\ CanInsertResponse
            /\ assignment_id \in DOMAIN task_assignments
            /\ question_responses' = question_responses @@
                  (next_response_id :>
                     [ResponseRow(question_id, caller, assignment_id, <<>>)
                        EXCEPT !.selected_choices = selected_choices])
            /\ next_response_id' = next_response_id + 1
            /\ last' = Outcome("respond", "ok")

\* ------------------------------------------------- POST /responses/detailed
SubmitOutcome(result, assignment_id, question_id, responses, is_update) ==
    [op |-> "submit", result |-> result, assignment_id |-> assignment_id,
     question_id |-> question_id, responses |-> responses,
     is_update |-> is_update, task_ids |-> {}]

create_detailed_question_response(user_id, task_id, question_id, responses, confidence) ==
    /\ last = NoCall
    /\ UNCHANGED <<tasks, next_task_id, next_assignment_id, requests>>
    /\ IF ~get_current_user(user_id)
       THEN /\ last' = Outcome("submit", "Unauthorized")
            /\ UNCHANGED <<task_assignments, question_responses, next_response_id>>
       ELSE IF ~QuestionResponseDetailedCreate(responses, confidence)
       THEN /\ last' = Outcome("submit", "InvalidAnswer")
            /\ UNCHANGED <<task_assignments, question_responses, next_response_id>>
       ELSE IF AssignmentsFor(user_id, task_id) = {}
       THEN /\ last' = Outcome("submit", "NoAssignment")
            /\ UNCHANGED <<task_assignments, question_responses, next_response_id>>
       ELSE \* assignments.data[0]: the store returns the rows in no stated order
            \E assignment_id \in AssignmentsFor(user_id, task_id) :
            LET assignment == task_assignments[assignment_id]
                check == SubmitCheck(assignment, question_id)
                existing == ExistingResponses(question_responses, assignment_id,
                                              question_id)
                row == ResponseRow(question_id, user_id, assignment_id,
                                   responses)
            IN  IF check # "ok"
                THEN /\ last' = SubmitOutcome(check, assignment_id, question_id, <<>>, FALSE)
                     /\ UNCHANGED <<task_assignments, question_responses,
                                    next_response_id>>
                ELSE IF existing # {}
                THEN \E existing_response_id \in existing :
                     /\ question_responses' =
                           [question_responses EXCEPT ![existing_response_id] =
                              [f \in DOMAIN @ |->
                                 IF f \in DOMAIN row THEN row[f] ELSE @[f]]]
                     /\ last' = SubmitOutcome("ok", assignment_id, question_id, responses, TRUE)
                     /\ UNCHANGED <<task_assignments, next_response_id>>
                ELSE /\ CanInsertResponse
                     /\ question_responses' = question_responses @@
                           (next_response_id :> row)
                     /\ next_response_id' = next_response_id + 1
                     /\ task_assignments' =
                           ProgressFromResponse(task_assignments,
                                                question_responses', assignment_id)
                     /\ last' = SubmitOutcome("ok", assignment_id, question_id, responses, FALSE)

\* the response leaves the server
deliver ==
    /\ last # NoCall
    /\ last' = NoCall
    /\ UNCHANGED <<tasks, next_task_id, task_assignments, question_responses,
                   next_assignment_id, next_response_id, requests>>

Next ==
    \/ deliver
    \/ \E i \in AssignInputs : assign_task(i[1], i[2], i[3], i[4], i[5])
    \/ \E i \in StatusInputs : update_assignment_status(i[1], i[2], i[3])
    \/ \E i \in ProgressRequests : update_assignment_progress(i[1], i[2], i[3])
    \/ \E id \in AssignmentIds : update_assignment_progress_from_response(id)
    \/ \E i \in RespondInputs :
          create_question_response(i[1], i[2], i[3], i[4], i[5])
    \/ \E i \in SubmitInputs :
          create_detailed_question_response(i[1], i[2], i[3], i[4], i[5])

Spec == Init /\ [][Next]_vars

\* ----------------------------------------------------------------------
\* POST /responses/detailed, one store call per step
\* ----------------------------------------------------------------------
\* Requests the interleaved submissions are tried with:
\* <<user_id, task_id, question_id, responses, confidence_level>>
ConcurrentInputs ==
    ({"u1"} \X {"t1"} \X {0, 1} \X ValidResponses \X {NULL})
    \cup ({"u1"} \X {"t1"} \X {0} \X {<<>>} \X {NULL})
    \cup ({"u9"} \X {"t1"} \X {0} \X {("A" :> <<"x">>)} \X {NULL})
    \cup ({"u1"} \X {"t2"} \X {0} \X {("A" :> <<"x">>)} \X {NULL})

Failed(result) == [Idle EXCEPT !.pc = "done", !.result = result]

\* lines 37-65: the request is validated, the assignment is read (one
\* select) and checked
submit_begin(p, user_id, task_id, question_id, responses, confidence) ==
    /\ requests[p].pc = "idle"
    /\ UNCHANGED <<tasks, next_task_id, task_assignments, question_responses,
                   next_assignment_id, next_response_id, last>>
    /\ IF ~get_current_user(user_id)
       THEN requests' = [requests EXCEPT ![p] = Failed("Unauthorized")]
       ELSE IF ~QuestionResponseDetailedCreate(responses, confidence)
       THEN requests' = [requests EXCEPT ![p] = Failed("InvalidAnswer")]
       ELSE IF AssignmentsFor(user_id, task_id) = {}
       THEN requests' = [requests EXCEPT ![p] = Failed("NoAssignment")]
       ELSE \E assignment_id \in AssignmentsFor(user_id, task_id) :
            LET check == SubmitCheck(task_assignments[assignment_id],
                                     question_id)
            IN  IF check # "ok"
                THEN requests' = [requests EXCEPT ![p] = Failed(check)]
                ELSE requests' = [requests EXCEPT ![p] =
                        [Idle EXCEPT !.pc = "lookup", !.user_id = user_id,
                                     !.question_id = question_id,
                                     !.responses = responses,
                                     !.assignment_id = assignment_id]]

\* lines 68-70: existing_responses, is_update, existing_responses.data[0]["id"]
submit_lookup(p) ==
    /\ requests[p].pc = "lookup"
    /\ UNCHANGED <<tasks, next_task_id, task_assignments, question_responses,
                   next_assignment_id, next_response_id, last>>
    /\ LET existing == ExistingResponses(question_responses,
                                         requests[p].assignment_id,
                                         requests[p].question_id)
       IN  IF existing # {}
           THEN \E existing_response_id \in existing :
                requests' = [requests EXCEPT ![p].pc = "write",
                                             ![p].existing = existing_response_id]
           ELSE requests' = [requests EXCEPT ![p].pc = "write"]

\* variant: a resubmission goes on to update the progress as well
submit_write_Recount(p) ==
    LET r == requests[p]
        row == ResponseRow(r.question_id, r.user_id, r.assignment_id,
                           r.responses)
    IN  /\ r.pc = "write"
        /\ UNCHANGED <<tasks, next_task_id, task_assignments, next_assignment_id, last>>
        /\ IF r.existing # NULL
           THEN /\ question_responses' =
                      [question_responses EXCEPT ![r.existing] =
                         [f \in DOMAIN @ |->
                            IF f \in DOMAIN row THEN row[f] ELSE @[f]]]
                /\ UNCHANGED next_response_id
                /\ requests' = [requests EXCEPT ![p].pc = "count"]
           ELSE /\ CanInsertResponse
                /\ question_responses' = question_responses @@
                      (next_response_id :> row)
                /\ next_response_id' = next_response_id + 1
                /\ requests' = [requests EXCEPT ![p].pc = "count"]

\* variant: the insert takes effect and the call raises all the same
submit_write_InsertThenRaise(p) ==
    LET r == requests[p]
        row == ResponseRow(r.question_id, r.user_id, r.assignment_id,
                           r.responses)
    IN  /\ r.pc = "write"
        /\ UNCHANGED <<tasks, next_task_id, task_assignments, next_assignment_id, last>>
        /\ IF r.existing # NULL
           THEN /\ question_responses' =
                      [question_responses EXCEPT ![r.existing] =
                         [f \in DOMAIN @ |->
                            IF f \in DOMAIN row THEN row[f] ELSE @[f]]]
                /\ UNCHANGED next_response_id
                /\ requests' = [requests EXCEPT ![p].pc = "done",
                                                ![p].result = "ok"]
           ELSE /\ CanInsertResponse
                /\ question_responses' = question_responses @@
                      (next_response_id :> row)
                /\ next_response_id' = next_response_id + 1
                /\ requests' = [requests EXCEPT ![p].pc = "done",
                                                ![p].result = "StorageError"]

\* lines 91-102: update the row found by id, or insert a new row
submit_write(p) ==
    LET r == requests[p]
        row == ResponseRow(r.question_id, r.user_id, r.assignment_id,
                           r.responses)
    IN  /\ r.pc = "write"
        /\ UNCHANGED <<tasks, next_task_id, task_assignments, next_assignment_id, last>>
        /\ IF r.existing # NULL
           THEN /\ question_responses' =
                      [question_responses EXCEPT ![r.existing] =
                         [f \in DOMAIN @ |->
                            IF f \in DOMAIN row THEN row[f] ELSE @[f]]]
                /\ UNCHANGED next_response_id
                /\ requests' = [requests EXCEPT ![p].pc = "done",
                                                ![p].result = "ok"]
           ELSE /\ CanInsertResponse
                /\ question_responses' = question_responses @@
                      (next_response_id :> row)
                /\ next_response_id' = next_response_id + 1
                /\ requests' = [requests EXCEPT ![p].pc = "count"]

\* assignment_service.py line 369: the rows of the assignment are read
progress_count(p) ==
    /\ requests[p].pc = "count"
    /\ requests' = [requests EXCEPT
          ![p].pc = "progress",
          ![p].count = Cardinality(ResponsesOf(question_responses,
                                               requests[p].assignment_id))]
    /\ UNCHANGED <<tasks, next_task_id, task_assignments, question_responses,
                   next_assignment_id, next_response_id, last>>

\* assignment_service.py line 372: the count read is written
progress_write(p) ==
    /\ requests[p].pc = "progress"
    /\ task_assignments' =
          SetCompletedLabels(task_assignments, requests[p].assignment_id,
                             requests[p].count)
    /\ requests' = [requests EXCEPT ![p].pc = "done", ![p].result = "ok"]
    /\ UNCHANGED <<tasks, next_task_id, question_responses, next_assignment_id,
                   next_response_id, last>>

\* the response leaves the server, the worker takes the next request
submit_return(p) ==
    /\ requests[p].pc = "done"
    /\ requests' = [requests EXCEPT ![p] = Idle]
    /\ UNCHANGED <<tasks, next_task_id, task_assignments, question_responses,
                   next_assignment_id, next_response_id, last>>

NextC ==
    \/ deliver
    \/ \E i \in AssignInputs : assign_task(i[1], i[2], i[3], i[4], i[5])
    \/ \E i \in RespondInputs :
          create_question_response(i[1], i[2], i[3], i[4], i[5])
    \/ \E p \in Workers, i \in ConcurrentInputs :
          submit_begin(p, i[1], i[2], i[3], i[4], i[5])
    \/ \E p \in Workers : submit_lookup(p)
    \/ \E p \in Workers : submit_write(p)
    \/ \E p \in Workers : progress_count(p)
    \/ \E p \in Workers : progress_write(p)
    \/ \E p \in Workers : submit_return(p)

SpecC == Init /\ [][NextC]_vars

\* ----------------------------------------------------------------------
\* Task management: TaskService and routers/tasks.py
\* ----------------------------------------------------------------------
\* <<caller, title>>
CreateTaskInputs == ({"adm"} \X Titles) \cup ({"u1"} \X {"B"})

\* <<caller, task_id, title>>
UpdateTaskInputs ==
    ({"adm"} \X {"t1", "t2", "t3"} \X (Titles \cup {NoTitle}))
    \cup ({"u1"} \X {"t1"} \X {"B"})

\* <<caller, task_id>>
DeleteTaskInputs == ({"adm"} \X {"t1", "t2"}) \cup ({"u1"} \X {"t1"})

GetTaskInputs == UserIds \X {"t1", "t2"}

\* <<caller, task_id, user_id_to_assign, range_start, range_end>>
TaskAssignInputs == {"adm"} \X {"t1", "t2"} \X {"u1"} \X {1} \X {1, 2}

\* <<user_id, task_id, question_id, responses, confidence_level>>
TaskSubmitInputs == {"u1"} \X {"t1", "t2"} \X {0} \X {("A" :> <<"x">>)} \X {NULL}

\* _check_duplicate_task_name: rows with .eq("title", title)
DuplicateTaskName(tbl, title) == \E t \in DOMAIN tbl : tbl[t].title = title

\* variant: the task being renamed is not excluded from the lookup
DuplicateTaskNameForUpdate_NoExclude(tbl, task_id, title) ==
    \E t \in DOMAIN tbl : tbl[t].title = title

\* _check_duplicate_task_name_for_update: .eq("title", title).neq("id", task_id)
DuplicateTaskNameForUpdate(tbl, task_id, title) ==
    \E t \in DOMAIN tbl : t # task_id /\ tbl[t].title = title

\* variant: every caller is shown every task
get_tasks_for_user_All(user_id, user_role) == DOMAIN tasks

\* get_tasks_for_user: the ids of the rows the listing returns
get_tasks_for_user(user_id, user_role) ==
    IF user_role = "admin"
    THEN DOMAIN tasks
    ELSE LET assigned_task_ids ==
                { task_assignments[a].task_id : a \in
                    { x \in DOMAIN task_assignments :
                        task_assignments[x].user_id = user_id } }
         IN  IF assigned_task_ids # {}
             THEN { t \in DOMAIN tasks :
                      tasks[t].created_by = user_id \/ t \in assigned_task_ids }
             ELSE { t \in DOMAIN tasks : tasks[t].created_by = user_id }

CanInsertTask == next_task_id <= MaxTasks

\* the body shared by create_task and create_task_with_questions
InsertTask(op, caller, title) ==
    /\ last = NoCall
    /\ UNCHANGED <<task_assignments, question_responses, next_assignment_id,
                   next_response_id, requests>>
    /\ IF ~require_admin(caller)
       THEN /\ last' = Outcome(op, "Forbidden")
            /\ UNCHANGED <<tasks, next_task_id>>
       ELSE IF DuplicateTaskName(tasks, title)
       THEN /\ last' = Outcome(op, "DuplicateName")
            /\ UNCHANGED <<tasks, next_task_id>>
       ELSE /\ CanInsertTask
            /\ tasks' = tasks @@ (TaskIdOf[next_task_id] :> TaskRow(title, caller))
            /\ next_task_id' = next_task_id + 1
            /\ last' = [Outcome(op, "ok") EXCEPT
                          !.task_ids = {TaskIdOf[next_task_id]}]

\* ------------------------------------------------- POST /tasks/
create_task(caller, title) == InsertTask("create_task", caller, title)

\* ------------------------------------------------- POST /tasks/with-questions
create_task_with_questions(caller, title) ==
    InsertTask("create_task_with_questions", caller, title)

\* ------------------------------------------------- PUT /tasks/{task_id}
update_task(caller, task_id, title) ==
    /\ last = NoCall
    /\ UNCHANGED <<next_task_id, task_assignments, question_responses,
                   next_assignment_id, next_response_id, requests>>
    /\ IF ~require_admin(caller)
       THEN last' = Outcome("update_task", "Forbidden") /\ UNCHANGED tasks
       ELSE IF ~get_task_by_id(task_id)
       THEN last' = Outcome("update_task", "NotFound") /\ UNCHANGED tasks
       ELSE IF title = NoTitle
       \* no title in update_dict: the columns modelled here are not written
       THEN last' = Outcome("update_task", "ok") /\ UNCHANGED tasks
       ELSE IF DuplicateTaskNameForUpdate(tasks, task_id, title)
       THEN last' = Outcome("update_task", "DuplicateName") /\ UNCHANGED tasks
       ELSE /\ tasks' = [tasks EXCEPT ![task_id].title = title]
            /\ last' = Outcome("update_task", "ok")

\* ------------------------------------------------- TaskService.update_task_with_questions
update_task_with_questions(task_id, title) ==
    /\ last = NoCall
    /\ title # NoTitle
    /\ UNCHANGED <<next_task_id, task_assignments, question_responses,
                   next_assignment_id, next_response_id, requests>>
    /\ IF DuplicateTaskNameForUpdate(tasks, task_id, title)
       THEN /\ last' = Outcome("update_task_with_questions", "DuplicateName")
            /\ UNCHANGED tasks
       ELSE IF ~get_task_by_id(task_id)
       \* update(...).eq("id", task_id) returns no row: "Failed to update task"
       THEN /\ last' = Outcome("update_task_with_questions", "ServerError")
            /\ UNCHANGED tasks
       ELSE /\ tasks' = [tasks EXCEPT ![task_id].title = title]
            /\ last' = Outcome("update_task_with_questions", "ok")

\* TaskService.delete_task: responses -> assignments -> task
\* (table questions is not modelled)
AssignmentsOfTask(asgs, task_id) ==
    { id \in DOMAIN asgs : asgs[id].task_id = task_id }

\* variant: the responses are left behind
DeleteResponsesOf_Keep(resps, assignment_ids) == resps

DeleteResponsesOf(resps, assignment_ids) ==
    [r \in { x \in DOMAIN resps :
               resps[x].task_assignment_id \notin assignment_ids } |-> resps[r]]

DeleteAssignmentsOf(asgs, task_id) ==
    [a \in DOMAIN asgs \ AssignmentsOfTask(asgs, task_id) |-> asgs[a]]

DeleteTaskRow(tbl, task_id) == [t \in DOMAIN tbl \ {task_id} |-> tbl[t]]

\* ------------------------------------------------- DELETE /tasks/{task_id}
delete_task(caller, task_id) ==
    /\ last = NoCall
    /\ UNCHANGED <<next_task_id, next_assignment_id, next_response_id, requests>>
    /\ IF ~require_admin(caller)
       THEN /\ last' = Outcome("delete_task", "Forbidden")
            /\ UNCHANGED <<tasks, task_assignments, question_responses>>
       ELSE IF ~get_task_by_id(task_id)
       THEN /\ last' = Outcome("delete_task", "NotFound")
            /\ UNCHANGED <<tasks, task_assignments, question_responses>>
       ELSE /\ question_responses' =
                  DeleteResponsesOf(question_responses,
                                    AssignmentsOfTask(task_assignments, task_id))
            /\ task_assignments' = DeleteAssignmentsOf(task_assignments, task_id)
            /\ tasks' = DeleteTaskRow(tasks, task_id)
            /\ last' = [Outcome("delete_task", "ok") EXCEPT !.task_ids = {task_id}]

\* ------------------------------------------------- GET /tasks/
get_tasks(caller) ==
    /\ last = NoCall
    /\ UNCHANGED <<tasks, next_task_id, task_assignments, question_responses,
                   next_assignment_id, next_response_id, requests>>
    /\ IF ~get_current_user(caller)
       THEN last' = Outcome("get_tasks", "Unauthorized")
       ELSE last' = [Outcome("get_tasks", "ok") EXCEPT
                       !.task_ids = get_tasks_for_user(caller,
                                                       user_profiles[caller])]

\* ------------------------------------------------- GET /tasks/{task_id}
get_task(caller, task_id) ==
    /\ last = NoCall
    /\ UNCHANGED <<tasks, next_task_id, task_assignments, question_responses,
                   next_assignment_id, next_response_id, requests>>
    /\ IF ~get_current_user(caller)
       THEN last' = Outcome("get_task", "Unauthorized")
       ELSE IF ~get_task_by_id(task_id)
       THEN last' = Outcome("get_task", "NotFound")
       ELSE IF /\ user_profiles[caller] # "admin"
               /\ task_id \notin get_tasks_for_user(caller, user_profiles[caller])
       THEN last' = Outcome("get_task", "Forbidden")
       ELSE last' = [Outcome("get_task", "ok") EXCEPT !.task_ids = {task_id}]

\* The first task may have been created by a user who was an admin then and
\* is a labeler now (auth_service.update_user_role).
InitT ==
    /\ \E created_by \in {"adm", "u1"} : tasks = ("t1" :> TaskRow("A", created_by))
    /\ next_task_id = 2
    /\ task_assignments = <<>>
    /\ question_responses = <<>>
    /\ next_assignment_id = 1
    /\ next_response_id = 1
    /\ requests = [p \in Workers |-> Idle]
    /\ last = NoCall

NextT ==
    \/ deliver
    \/ \E i \in CreateTaskInputs : create_task(i[1], i[2])
    \/ \E i \in CreateTaskInputs : create_task_with_questions(i[1], i[2])
    \/ \E i \in UpdateTaskInputs : update_task(i[1], i[2], i[3])
    \/ \E i \in UpdateTaskInputs : update_task_with_questions(i[2], i[3])
    \/ \E i \in DeleteTaskInputs : delete_task(i[1], i[2])
    \/ \E caller \in UserIds : get_tasks(caller)
    \/ \E i \in GetTaskInputs : get_task(i[1], i[2])
    \/ \E i \in TaskAssignInputs : assign_task(i[1], i[2], i[3], i[4], i[5])
    \/ \E i \in TaskSubmitInputs :
          create_detailed_question_response(i[1], i[2], i[3], i[4], i[5])

SpecT == InitT /\ [][NextT]_vars

\* ----------------------------------------------------------------------
\* Task creation and renaming, one store call per step
\* ----------------------------------------------------------------------
\* a create or rename request between two of its store calls
TaskRequest(pc, task_id, title, created_by) ==
    [pc |-> pc, task_id |-> task_id, title |-> title, created_by |-> created_by]

\* create_task line 56 (create_task_with_questions line 76): the caller is
\* authorized, then the title is looked up
task_create_check(p, caller, title) ==
    /\ requests[p].pc = "idle"
    /\ UNCHANGED <<tasks, next_task_id, task_assignments, question_responses,
                   next_assignment_id, next_response_id, last>>
    /\ IF ~require_admin(caller)
       THEN requests' = [requests EXCEPT ![p] = Failed("Forbidden")]
       ELSE IF DuplicateTaskName(tasks, title)
       THEN requests' = [requests EXCEPT ![p] = Failed("DuplicateName")]
       ELSE requests' = [requests EXCEPT ![p] =
                           TaskRequest("task_insert", "", title, caller)]

\* create_task line 65 (create_task_with_questions line 102): the insert
task_insert(p) ==
    /\ requests[p].pc = "task_insert"
    /\ CanInsertTask
    /\ tasks' = tasks @@ (TaskIdOf[next_task_id] :>
                             TaskRow(requests[p].title, requests[p].created_by))
    /\ next_task_id' = next_task_id + 1
    /\ requests' = [requests EXCEPT ![p] = Failed("ok")]
    /\ UNCHANGED <<task_assignments, question_responses, next_assignment_id,
                   next_response_id, last>>

\* routers/tasks.py line 262: the caller is authorized, the task is read
task_rename_begin(p, caller, task_id, title) ==
    /\ requests[p].pc = "idle"
    /\ UNCHANGED <<tasks, next_task_id, task_assignments, question_responses,
                   next_assignment_id, next_response_id, last>>
    /\ IF ~require_admin(caller)
       THEN requests' = [requests EXCEPT ![p] = Failed("Forbidden")]
       ELSE IF ~get_task_by_id(task_id)
       THEN requests' = [requests EXCEPT ![p] = Failed("NotFound")]
       ELSE IF title = NoTitle
       THEN requests' = [requests EXCEPT ![p] = Failed("ok")]
       ELSE requests' = [requests EXCEPT ![p] =
                           TaskRequest("task_rename_check", task_id, title, caller)]

\* update_task line 161: the title is looked up among the other tasks
task_rename_check(p) ==
    /\ requests[p].pc = "task_rename_check"
    /\ UNCHANGED <<tasks, next_task_id, task_assignments, question_responses,
                   next_assignment_id, next_response_id, last>>
    /\ IF DuplicateTaskNameForUpdate(tasks, requests[p].task_id, requests[p].title)
       THEN requests' = [requests EXCEPT ![p] = Failed("DuplicateName")]
       ELSE requests' = [requests EXCEPT ![p].pc = "task_update"]

\* update_task line 166: the update by id
task_update(p) ==
    /\ requests[p].pc = "task_update"
    /\ requests[p].task_id \in DOMAIN tasks
    /\ tasks' = [tasks EXCEPT ![requests[p].task_id].title = requests[p].title]
    /\ requests' = [requests EXCEPT ![p] = Failed("ok")]
    /\ UNCHANGED <<next_task_id, task_assignments, question_responses,
                   next_assignment_id, next_response_id, last>>

NextTC ==
    \/ \E p \in Workers, i \in CreateTaskInputs : task_create_check(p, i[1], i[2])
    \/ \E p \in Workers : task_insert(p)
    \/ \E p \in Workers, i \in UpdateTaskInputs :
          task_rename_begin(p, i[1], i[2], i[3])
    \/ \E p \in Workers : task_rename_check(p)
    \/ \E p \in Workers : task_update(p)
    \/ \E p \in Workers : submit_return(p)

SpecTC == Init /\ [][NextTC]_vars

\* ----------------------------------------------------------------------
\* The admin-only endpoints, called by every kind of caller
\* ----------------------------------------------------------------------
\* callers whose profile role is not admin, or who have no profile
NonAdmins == { u \in UserIds : u \notin DOMAIN user_profiles \/ user_profiles[u] # "admin" }

\* <<caller, assignment_id, is_active>>
AdminStatusInputs == UserIds \X {1} \X BOOLEAN

\* <<caller, assignment_id, completed_labels>>
AdminProgressInputs == UserIds \X {1} \X {0, MaxRange}

NextA ==
    \/ NextT
    \/ \E c \in NonAdmins, title \in Titles : create_task(c, title)
    \/ \E c \in NonAdmins, title \in Titles : create_task_with_questions(c, title)
    \/ \E c \in NonAdmins, title \in Titles : update_task(c, "t1", title)
    \/ \E c \in NonAdmins : delete_task(c, "t1")
    \/ \E c \in NonAdmins : assign_task(c, "t1", "u1", 1, 1)
    \/ \E i \in AdminStatusInputs : update_assignment_status(i[1], i[2], i[3])
    \/ \E i \in AdminProgressInputs : update_assignment_progress(i[1], i[2], i[3])

SpecA == InitT /\ [][NextA]_vars

\* ----------------------------------------------------------------------
\* Racing first-time submissions, then a progress update that runs alone
\* ----------------------------------------------------------------------
\* <<caller, task_id, user_id_to_assign, range_start, range_end>>
RaceAssignInputs == {"adm"} \X {"t1"} \X {"u1"} \X {1} \X {MaxRange}

\* <<user_id, task_id, question_id, responses, confidence_level>>
RaceInputs == {"u1"} \X {"t1"} \X {0, 1} \X {("A" :> <<"x">>)} \X {NULL}

NextR ==
    \/ deliver
    \/ \E i \in RaceAssignInputs : assign_task(i[1], i[2], i[3], i[4], i[5])
    \/ \E p \in Workers, i \in RaceInputs :
          submit_begin(p, i[1], i[2], i[3], i[4], i[5])
    \/ \E p \in Workers : submit_lookup(p)
    \/ \E p \in Workers : submit_write(p)
    \/ \E p \in Workers : progress_count(p)
    \/ \E p \in Workers : progress_write(p)
    \/ \E p \in Workers : submit_return(p)
    \/ \E id \in AssignmentIds : update_assignment_progress_from_response(id)

SpecR == Init /\ [][NextR]_vars

\* variant: a failure inside the progress update aborts the submission
store_error_Abort(p) ==
    /\ requests[p].pc \in {"idle", "lookup", "write", "count", "progress"}
    /\ requests' = [requests EXCEPT ![p].pc = "done",
                                    ![p].result = "StorageError"]
    /\ UNCHANGED <<tasks, next_task_id, task_assignments, question_responses,
                   next_assignment_id, next_response_id, last>>

\* ----------------------------------------------------------------------
\* POST /responses/detailed with store calls that may raise
\* ----------------------------------------------------------------------
\* <<caller, task_id, user_id_to_assign, range_start, range_end>>
FaultAssignInputs == {"adm"} \X {"t1"} \X {"u1"} \X {1} \X {1, MaxRange}

\* <<caller, assignment_id, is_active>>
FaultStatusInputs == {"adm"} \X {1} \X BOOLEAN

\* The store call the worker is about to make raises and has no effect.
\* Lines 37, 68, 93, 99 are inside the try of the handler: the exception
\* reaches line 129 and the caller. Lines 369 and 372 of
\* assignment_service.py are inside the try of
\* update_assignment_progress_from_response: the exception is printed
\* (line 374) and the submission returns its response.
store_error(p) ==
    /\ requests[p].pc \in {"idle", "lookup", "write", "count", "progress"}
    /\ IF requests[p].pc \in {"count", "progress"}
       THEN requests' = [requests EXCEPT ![p].pc = "done", ![p].result = "ok"]
       ELSE requests' = [requests EXCEPT ![p].pc = "done",
                                         ![p].result = "StorageError"]
    /\ UNCHANGED <<tasks, next_task_id, task_assignments, question_responses,
                   next_assignment_id, next_response_id, last>>

NextF ==
    \/ deliver
    \/ \E i \in FaultAssignInputs : assign_task(i[1], i[2], i[3], i[4], i[5])
    \/ \E i \in FaultStatusInputs : update_assignment_status(i[1], i[2], i[3])
    \/ \E p \in Workers, i \in ConcurrentInputs :
          submit_begin(p, i[1], i[2], i[3], i[4], i[5])
    \/ \E p \in Workers : submit_lookup(p)
    \/ \E p \in Workers : submit_write(p)
    \/ \E p \in Workers : progress_count(p)
    \/ \E p \in Workers : progress_write(p)
    \/ \E p \in Workers : store_error(p)
    \/ \E p \in Workers : submit_return(p)

SpecF == Init /\ [][NextF]_vars

\* ----------------------------------------------------------------------
\* DELETE /tasks/{task_id}, one store call per step
\* ----------------------------------------------------------------------
\* a delete between two of its store calls; assignment_ids: the ids read at
\* line 228 whose responses are still to delete
DeleteRequest(pc, task_id, assignment_ids) ==
    [pc |-> pc, task_id |-> task_id, assignment_ids |-> assignment_ids,
     result |-> "none"]

DeletePcs ==
    {"del_select", "del_responses", "del_assignments", "del_questions",
     "del_task"}

\* routers/tasks.py lines 281-291: the caller is authorized, the task is read
delete_begin(p, caller, task_id) ==
    /\ requests[p].pc = "idle"
    /\ UNCHANGED <<tasks, next_task_id, task_assignments, question_responses,
                   next_assignment_id, next_response_id, last>>
    /\ IF ~require_admin(caller)
       THEN requests' = [requests EXCEPT ![p] = Failed("Forbidden")]
       ELSE IF ~get_task_by_id(task_id)
       THEN requests' = [requests EXCEPT ![p] = Failed("NotFound")]
       ELSE requests' = [requests EXCEPT ![p] =
                           DeleteRequest("del_select", task_id, {})]

\* variant: the responses are not deleted before the assignments
delete_select_SkipResponses(p) ==
    /\ requests[p].pc = "del_select"
    /\ requests' = [requests EXCEPT ![p] =
          DeleteRequest("del_assignments", requests[p].task_id, {})]
    /\ UNCHANGED <<tasks, next_task_id, task_assignments, question_responses,
                   next_assignment_id, next_response_id, last>>

\* task_service.py lines 228-236: the ids of the task's assignments are read
delete_select(p) ==
    /\ requests[p].pc = "del_select"
    /\ LET assignment_ids ==
              AssignmentsOfTask(task_assignments, requests[p].task_id)
       IN  requests' = [requests EXCEPT ![p] =
              DeleteRequest(IF assignment_ids = {} THEN "del_assignments"
                            ELSE "del_responses",
                            requests[p].task_id, assignment_ids)]
    /\ UNCHANGED <<tasks, next_task_id, task_assignments, question_responses,
                   next_assignment_id, next_response_id, last>>

\* lines 238-242: one pass of the loop, the responses of one assignment
delete_responses(p) ==
    /\ requests[p].pc = "del_responses"
    /\ \E assignment_id \in requests[p].assignment_ids :
          /\ question_responses' =
                DeleteResponsesOf(question_responses, {assignment_id})
          /\ LET left == requests[p].assignment_ids \ {assignment_id}
             IN  requests' = [requests EXCEPT ![p] =
                    DeleteRequest(IF left = {} THEN "del_assignments"
                                  ELSE "del_responses",
                                  requests[p].task_id, left)]
    /\ UNCHANGED <<tasks, next_task_id, task_assignments, next_assignment_id,
                   next_response_id, last>>

\* lines 245-248: the assignments with .eq("task_id", task_id)
delete_assignments(p) ==
    /\ requests[p].pc = "del_assignments"
    /\ task_assignments' =
          DeleteAssignmentsOf(task_assignments, requests[p].task_id)
    /\ requests' = [requests EXCEPT ![p].pc = "del_questions"]
    /\ UNCHANGED <<tasks, next_task_id, question_responses, next_assignment_id,
                   next_response_id, last>>

\* lines 251-254: the rows of table questions (not modelled)
delete_questions(p) ==
    /\ requests[p].pc = "del_questions"
    /\ requests' = [requests EXCEPT ![p].pc = "del_task"]
    /\ UNCHANGED <<tasks, next_task_id, task_assignments, question_responses,
                   next_assignment_id, next_response_id, last>>

\* lines 257-262: the task itself
delete_task_row(p) ==
    /\ requests[p].pc = "del_task"
    /\ tasks' = DeleteTaskRow(tasks, requests[p].task_id)
    /\ requests' = [requests EXCEPT ![p].pc = "done", ![p].result = "ok"]
    /\ UNCHANGED <<next_task_id, task_assignments, question_responses,
                   next_assignment_id, next_response_id, last>>

\* lines 263-264: the store call the delete is about to make raises and has
\* no effect; the delete stops where it is
delete_error(p) ==
    /\ requests[p].pc \in DeletePcs
    /\ requests' = [requests EXCEPT ![p].pc = "done",
                                    ![p].result = "StorageError"]
    /\ UNCHANGED <<tasks, next_task_id, task_assignments, question_responses,
                   next_assignment_id, next_response_id, last>>

NoDeleteInFlight == \A p \in Workers : requests[p].pc \notin DeletePcs

DeleteSteps ==
    \/ \E p \in Workers, i \in DeleteTaskInputs : delete_begin(p, i[1], i[2])
    \/ \E p \in Workers : delete_select(p)
    \/ \E p \in Workers : delete_responses(p)
    \/ \E p \in Workers : delete_assignments(p)
    \/ \E p \in Workers : delete_questions(p)
    \/ \E p \in Workers : delete_task_row(p)
    \/ \E p \in Workers : delete_error(p)
    \/ \E p \in Workers : submit_return(p)

\* the other requests, each run to completion
OtherRequests ==
    \/ deliver
    \/ \E i \in TaskAssignInputs : assign_task(i[1], i[2], i[3], i[4], i[5])
    \/ \E i \in TaskSubmitInputs :
          create_detailed_question_response(i[1], i[2], i[3], i[4], i[5])

\* SpecD: no other request runs while a delete is between its store calls
NextD ==
    \/ DeleteSteps
    \/ NoDeleteInFlight /\ OtherRequests

SpecD == Init /\ [][NextD]_vars

\* SpecDC: the other requests run between the store calls of a delete
NextDC ==
    \/ DeleteSteps
    \/ OtherRequests

SpecDC == Init /\ [][NextDC]_vars

\* ----------------------------------------------------------------------
\* Properties
\* ----------------------------------------------------------------------
\* helpers of the properties (independent of the handlers' own lookups)
completed_labels(id) == task_assignments[id].completed_labels
Span(a) == a.question_range_end - a.question_range_start + 1
RowsOf(resps, id) == { r \in DOMAIN resps : resps[r].task_assignment_id = id }
RowsOfPair(resps, id, q) == { r \in RowsOf(resps, id) : resps[r].question_id = q }
StoredCount(id) == Cardinality(RowsOf(question_responses, id))
InWindow(a, q) == q >= a.question_range_start - 1 /\ q <= a.question_range_end - 1
Assign(i) == assign_task(i[1], i[2], i[3], i[4], i[5])
StoreUnchanged == UNCHANGED <<tasks, task_assignments, question_responses>>

\* the step is a POST /responses/detailed that inserted a row
FirstTimeSubmit ==
    /\ last'.op = "submit" /\ last'.result = "ok" /\ ~last'.is_update
    /\ question_responses' # question_responses

Resubmit ==
    /\ last'.op = "submit" /\ last'.assignment_id # NULL
    /\ task_assignments[last'.assignment_id].is_active
    /\ \E r \in RowsOfPair(question_responses, last'.assignment_id,
                           last'.question_id) :
          question_responses[r].responses # <<>>

\* C2 (as stated): of two successive submissions x then y for the same
\* (assignment, index) the second updates the row in place: afterwards the
\* pair has exactly one row, it stores y, and completed_labels is as it was
\* after the first call.
C2_UpsertLaw ==
    [][Resubmit =>
          LET id == last'.assignment_id
              pair == RowsOfPair(question_responses', id, last'.question_id)
          IN  /\ last'.result = "ok" /\ last'.is_update
              /\ Cardinality(pair) = 1
              /\ \A r \in pair :
                    question_responses'[r].responses = last'.responses
              /\ task_assignments'[id].completed_labels = completed_labels(id)]_vars

\* C2 (amended): if the first call left the assignment below its span, the
\* second call updates one row of the pair in place: no row is added or
\* removed, that row stores y, every other row and the assignment are
\* untouched, so the pair has exactly one row, storing y, whenever it had
\* exactly one before. If the first call completed the assignment, the
\* second fails with AssignmentComplete and writes nothing.
C2_UpdateInPlace ==
    [][Resubmit =>
          LET id == last'.assignment_id
              before == RowsOfPair(question_responses, id, last'.question_id)
              pair == RowsOfPair(question_responses', id, last'.question_id)
          IN  IF completed_labels(id) >= Span(task_assignments[id])
              THEN last'.result = "AssignmentComplete" /\ StoreUnchanged
              ELSE /\ last'.result = "ok" /\ last'.is_update
                   /\ DOMAIN question_responses' = DOMAIN question_responses
                   /\ task_assignments' = task_assignments
                   /\ pair = before
                   /\ \E r \in pair :
                        /\ question_responses'[r].responses = last'.responses
                        /\ \A o \in DOMAIN question_responses \ {r} :
                              question_responses'[o] = question_responses[o]
                   /\ (Cardinality(before) = 1 =>
                         /\ Cardinality(pair) = 1
                         /\ \A r \in pair :
                               question_responses'[r].responses
                                  = last'.responses)]_vars

C2_Witness ==
    /\ last.op = "submit" /\ last.result = "ok" /\ last.is_update
    /\ last.responses = ("A" :> <<"y">>)
    /\ completed_labels(last.assignment_id) = 1
    /\ \E r \in DOMAIN question_responses :
          /\ RowsOfPair(question_responses, last.assignment_id,
                        last.question_id) = {r}
          /\ question_responses[r].responses = ("A" :> <<"y">>)

\* C3: a submission whose index lies outside the window of the assignment
\* it resolves to fails and writes nothing; it fails with OutOfRange when
\* the assignment is active and below its span.
C3_OutOfRangeNoWrite ==
    [][(/\ last'.op = "submit" /\ last'.assignment_id # NULL
        /\ ~InWindow(task_assignments[last'.assignment_id], last'.question_id))
       => LET a == task_assignments[last'.assignment_id] IN
          /\ last'.result \in
                {"AssignmentInactive", "AssignmentComplete", "OutOfRange"}
          /\ (a.is_active /\ a.completed_labels < Span(a)
                => last'.result = "OutOfRange")
          /\ StoreUnchanged]_vars

C3_Witness ==
    /\ last.op = "submit" /\ last.result = "OutOfRange"
    /\ last.question_id = task_assignments[last.assignment_id].question_range_end
    /\ StoredCount(last.assignment_id) = 1

\* C4: a submission that resolves to an active assignment whose
\* completed_labels is at least its span fails with AssignmentComplete and
\* writes nothing, whatever the index and whether or not it has a row.
C4_CompleteRejects ==
    [][(/\ last'.op = "submit" /\ last'.assignment_id # NULL
        /\ task_assignments[last'.assignment_id].is_active
        /\ completed_labels(last'.assignment_id)
              >= Span(task_assignments[last'.assignment_id]))
       => last'.result = "AssignmentComplete" /\ StoreUnchanged]_vars

C4_Witness ==
    /\ last.op = "submit" /\ last.result = "AssignmentComplete"
    /\ RowsOfPair(question_responses, last.assignment_id, last.question_id) # {}
    /\ completed_labels(last.assignment_id)
          = Span(task_assignments[last.assignment_id])

\* C6: for an admin caller, an existing task, an existing user and a range
\* with range_end >= range_start >= 1, assign_task succeeds and inserts
\* exactly one assignment with that range, completed_labels 0, is_active
\* true and completed_at null; the other rows are untouched.
C6_AssignSucceeds ==
    [][\A i \in AssignInputs :
          (/\ last'.op = "assign"
           /\ i[1] \in DOMAIN user_profiles /\ user_profiles[i[1]] = "admin"
           /\ i[2] \in DOMAIN tasks /\ i[3] \in DOMAIN user_profiles
           /\ i[5] >= i[4] /\ i[4] >= 1
           /\ Assign(i))
          => /\ last'.result = "ok"
             /\ \E id \in DOMAIN task_assignments' \ DOMAIN task_assignments :
                  /\ DOMAIN task_assignments' = DOMAIN task_assignments \cup {id}
                  /\ task_assignments'[id] =
                        [task_id |-> i[2], user_id |-> i[3],
                         question_range_start |-> i[4],
                         question_range_end |-> i[5], completed_labels |-> 0,
                         is_active |-> TRUE, completed_at |-> NULL]
                  /\ Span(task_assignments'[id]) = i[5] - i[4] + 1
             /\ \A o \in DOMAIN task_assignments :
                  task_assignments'[o] = task_assignments[o]
             /\ UNCHANGED <<tasks, question_responses>>]_vars

C6_Witness ==
    /\ last.op = "assign" /\ last.result = "ok"
    /\ \E id \in DOMAIN task_assignments :
          /\ task_assignments[id].question_range_start = 2
          /\ task_assignments[id].question_range_end = 2
          /\ task_assignments[id].completed_labels = 0
          /\ id = next_assignment_id - 1

\* C7: for an admin caller, a range with range_end < range_start or a
\* non-positive endpoint makes assign_task fail with InvalidRange, and no
\* row of any table changes.
C7_InvalidRange ==
    [][\A i \in AssignInputs :
          (/\ last'.op = "assign"
           /\ i[1] \in DOMAIN user_profiles /\ user_profiles[i[1]] = "admin"
           /\ (i[5] < i[4] \/ i[4] <= 0 \/ i[5] <= 0)
           /\ Assign(i))
          => last'.result = "InvalidRange" /\ StoreUnchanged]_vars

C7_Witness ==
    /\ last.op = "assign" /\ last.result = "InvalidRange"
    /\ DOMAIN task_assignments # {}

\* C8: for an admin caller and a valid range, assign_task fails with
\* NotFound and persists nothing when the task or the user does not exist.
C8_NotFound ==
    [][\A i \in AssignInputs :
          (/\ last'.op = "assign"
           /\ i[1] \in DOMAIN user_profiles /\ user_profiles[i[1]] = "admin"
           /\ i[5] >= i[4] /\ i[4] >= 1
           /\ (i[2] \notin DOMAIN tasks \/ i[3] \notin DOMAIN user_profiles)
           /\ Assign(i))
          => last'.result = "NotFound" /\ StoreUnchanged]_vars

C8_Witness ==
    /\ last.op = "assign" /\ last.result = "NotFound"
    /\ DOMAIN task_assignments # {}

\* C9: recomputing the progress of an assignment twice, with no response
\* written in between, gives what recomputing it once gives: the second
\* call changes neither completed_labels nor completed_at.
C9_RecomputeIdempotent ==
    \A id \in AssignmentIds :
       LET once == ProgressFromResponse(task_assignments, question_responses, id)
       IN  ProgressFromResponse(once, question_responses, id) = once

C9_Witness ==
    /\ last.op = "recompute"
    /\ last.assignment_id \in DOMAIN task_assignments
    /\ completed_labels(last.assignment_id) = 1
    /\ StoredCount(last.assignment_id) = 1
    /\ task_assignments[last.assignment_id].completed_at # NULL

\* C10 (as stated): when a first-time submission brings completed_labels to
\* the span or beyond, completed_at is stamped.
C10_CompletionStamped ==
    (/\ last.op = "submit" /\ last.result = "ok" /\ ~last.is_update
     /\ completed_labels(last.assignment_id)
           >= Span(task_assignments[last.assignment_id]))
    => task_assignments[last.assignment_id].completed_at # NULL

\* C5 (as stated): in every reachable state, also those reached by
\* interleaved submissions, at most one row of question_responses is stored
\* per (assignment, question index).
C5_UniquePerPair ==
    \A r1, r2 \in DOMAIN question_responses :
       (/\ question_responses[r1].task_assignment_id
              = question_responses[r2].task_assignment_id
        /\ question_responses[r1].question_id
              = question_responses[r2].question_id)
       => r1 = r2

Submit(i) == create_detailed_question_response(i[1], i[2], i[3], i[4], i[5])

\* C12: a submission that resolves to an assignment whose is_active is
\* false fails with AssignmentInactive and writes nothing; a status update
\* (pause or resume) leaves every response and every completed_labels as it
\* was, and a submission that resolves to an active assignment is judged
\* on its count and window alone: it is never turned away as inactive, and
\* it succeeds when the count is below the span and the index in the window.
C12_PauseResume ==
    [][/\ (/\ last'.op = "submit" /\ last'.assignment_id # NULL
           /\ ~task_assignments[last'.assignment_id].is_active)
          => (last'.result = "AssignmentInactive" /\ StoreUnchanged)
       /\ (last'.op = "status" /\ last'.result = "ok")
          => /\ question_responses' = question_responses
             /\ DOMAIN task_assignments' = DOMAIN task_assignments
             /\ \A id \in DOMAIN task_assignments :
                   task_assignments'[id].completed_labels = completed_labels(id)
       /\ (/\ last'.op = "submit" /\ last'.assignment_id # NULL
           /\ task_assignments[last'.assignment_id].is_active)
          => LET a == task_assignments[last'.assignment_id] IN
             /\ last'.result # "AssignmentInactive"
             /\ (a.completed_labels < Span(a) /\ InWindow(a, last'.question_id)
                   => last'.result = "ok")]_vars

C12_Witness ==
    /\ last.op = "submit" /\ last.result = "AssignmentInactive"
    /\ ~task_assignments[last.assignment_id].is_active
    /\ StoredCount(last.assignment_id) = 1
    /\ completed_labels(last.assignment_id) = 1
    /\ Span(task_assignments[last.assignment_id]) = 2

\* the request carries an answer the request model refuses
InvalidAnswerInput(responses, confidence) ==
    \/ DOMAIN responses = {}
    \/ \E category \in DOMAIN responses : responses[category] = <<>>
    \/ (confidence # NULL /\ (confidence < 1 \/ confidence > 5))

\* C13: a submission by an authenticated caller whose answer map is empty,
\* or has a category with an empty selection list, or carries a confidence
\* outside [1,5], fails with InvalidAnswer and stores nothing; every row a
\* submission writes has a non-empty answer map with at least one selected
\* value in every category.
C13_InvalidAnswer ==
    [][/\ \A i \in SubmitInputs :
             (/\ last'.op = "submit"
              /\ InvalidAnswerInput(i[4], i[5])
              /\ i[1] \in DOMAIN user_profiles
              /\ Submit(i))
             => (last'.result = "InvalidAnswer" /\ StoreUnchanged)
       /\ (last'.op = "submit" /\ question_responses' # question_responses)
          => \A r \in DOMAIN question_responses' :
                (r \notin DOMAIN question_responses
                 \/ question_responses'[r] # question_responses[r])
                => /\ DOMAIN question_responses'[r].responses # {}
                   /\ \A category \in DOMAIN question_responses'[r].responses :
                         Len(question_responses'[r].responses[category]) >= 1]_vars

C13_Witness ==
    /\ last.op = "submit" /\ last.result = "InvalidAnswer"
    /\ \E r \in DOMAIN question_responses :
          /\ question_responses[r].user_id = "u1"
          /\ question_responses[r].responses # <<>>

\* C14 (as stated): update_status changes only the is_active flag of the
\* assignment named: its completed_labels, completed_at and range, every
\* other assignment and every response are as before; when no assignment
\* has the id, the caller receives NotFound and nothing changes.
C14_StatusFrame ==
    [][\A i \in StatusInputs :
          (/\ last'.op = "status"
           /\ i[1] \in DOMAIN user_profiles /\ user_profiles[i[1]] = "admin"
           /\ update_assignment_status(i[1], i[2], i[3]))
          => IF i[2] \in DOMAIN task_assignments
             THEN /\ last'.result = "ok"
                  /\ task_assignments' =
                        [task_assignments EXCEPT ![i[2]].is_active = i[3]]
                  /\ UNCHANGED <<tasks, question_responses>>
             ELSE last'.result = "NotFound" /\ StoreUnchanged]_vars

\* C15 (as stated): every stored response's question index lies in the
\* 0-based window of the assignment it references.
C15_ResponsesInWindow ==
    \A r \in DOMAIN question_responses :
       question_responses[r].task_assignment_id \in DOMAIN task_assignments
       => InWindow(task_assignments[question_responses[r].task_assignment_id],
                   question_responses[r].question_id)

\* C16 (as stated): completed_labels is never negative and no step stores
\* a smaller value than the one stored before.
C16_CountMonotonic ==
    [][\A id \in DOMAIN task_assignments :
          id \in DOMAIN task_assignments'
          => /\ task_assignments'[id].completed_labels >= 0
             /\ task_assignments'[id].completed_labels >= completed_labels(id)]_vars

\* C20 (as stated): no two assignments of the same task have overlapping
\* question ranges.
C20_RangesDisjoint ==
    \A a1, a2 \in DOMAIN task_assignments :
       (a1 # a2 /\ task_assignments[a1].task_id = task_assignments[a2].task_id)
       => \/ task_assignments[a1].question_range_end
                < task_assignments[a2].question_range_start
          \/ task_assignments[a2].question_range_end
                < task_assignments[a1].question_range_start

\* C11: after a successful delete_task(t), t is not in table tasks, no
\* assignment of t is stored, and no response that referenced an assignment
\* of t is stored; every other task, every assignment of another task and
\* every response of such an assignment is stored as before.
C11_DeleteCascade ==
    [][(last'.op = "delete_task" /\ last'.result = "ok")
       => \E t \in DOMAIN tasks :
          LET of_t == { a \in DOMAIN task_assignments :
                          task_assignments[a].task_id = t }
              resp_t == { r \in DOMAIN question_responses :
                            question_responses[r].task_assignment_id \in of_t }
          IN  /\ last'.task_ids = {t}
              /\ DOMAIN tasks' = DOMAIN tasks \ {t}
              /\ \A o \in DOMAIN tasks' : tasks'[o] = tasks[o]
              /\ DOMAIN task_assignments' = DOMAIN task_assignments \ of_t
              /\ \A a \in DOMAIN task_assignments' :
                    /\ task_assignments'[a] = task_assignments[a]
                    /\ task_assignments'[a].task_id # t
              /\ DOMAIN question_responses' = DOMAIN question_responses \ resp_t
              /\ \A r \in DOMAIN question_responses' :
                    /\ question_responses'[r] = question_responses[r]
                    /\ question_responses'[r].task_assignment_id \notin of_t]_vars

C11_Witness ==
    /\ last.op = "delete_task" /\ last.result = "ok"
    /\ next_assignment_id = 3 /\ next_response_id = 2
    /\ Cardinality(DOMAIN task_assignments) = 1
    /\ DOMAIN question_responses = {}
    /\ DOMAIN tasks # {}

CreateTask(i) == create_task(i[1], i[2])
UpdateTask(i) == update_task(i[1], i[2], i[3])
IsAdmin(u) == u \in DOMAIN user_profiles /\ user_profiles[u] = "admin"

\* C18: for an admin caller, creating a task with the title of a stored
\* task fails with DuplicateName and inserts nothing; renaming a stored task
\* to the title of another stored task fails with DuplicateName and leaves
\* every task as it was; an update of a stored task that carries its own
\* current title succeeds.
C18_DuplicateName ==
    [][/\ \A i \in CreateTaskInputs :
             (/\ last'.op = "create_task" /\ IsAdmin(i[1])
              /\ \E t \in DOMAIN tasks : tasks[t].title = i[2]
              /\ CreateTask(i))
             => (last'.result = "DuplicateName" /\ StoreUnchanged)
       /\ \A i \in UpdateTaskInputs :
             (/\ last'.op = "update_task" /\ IsAdmin(i[1])
              /\ i[2] \in DOMAIN tasks
              /\ UpdateTask(i))
             => /\ (\E t \in DOMAIN tasks \ {i[2]} : tasks[t].title = i[3])
                   => (last'.result = "DuplicateName" /\ StoreUnchanged)
                /\ tasks[i[2]].title = i[3]
                   => (last'.result = "ok" /\ StoreUnchanged)]_vars

C18_Witness ==
    /\ last.op = "update_task" /\ last.result = "DuplicateName"
    /\ Cardinality(DOMAIN tasks) = 2
    /\ Cardinality({ tasks[t].title : t \in DOMAIN tasks }) = 2

\* the tasks a user created or has an assignment to
VisibleTasks(u) ==
    { t \in DOMAIN tasks :
        \/ tasks[t].created_by = u
        \/ \E a \in DOMAIN task_assignments :
              task_assignments[a].user_id = u /\ task_assignments[a].task_id = t }

\* C19: the listing of an admin holds every task, the listing of any other
\* user exactly the tasks the user created or has an assignment to; the
\* fetch of a stored task succeeds for an admin, and for another user
\* exactly when the task is in that set: otherwise it fails with Forbidden
\* and returns no task.
C19_RoleAwareAccess ==
    [][/\ \A u \in UserIds :
             (last'.op = "get_tasks" /\ u \in DOMAIN user_profiles /\ get_tasks(u))
             => /\ last'.result = "ok"
                /\ last'.task_ids =
                      IF user_profiles[u] = "admin" THEN DOMAIN tasks
                      ELSE VisibleTasks(u)
       /\ \A i \in GetTaskInputs :
             (/\ last'.op = "get_task" /\ i[1] \in DOMAIN user_profiles
              /\ i[2] \in DOMAIN tasks /\ get_task(i[1], i[2]))
             => IF user_profiles[i[1]] = "admin" \/ i[2] \in VisibleTasks(i[1])
                THEN last'.result = "ok" /\ last'.task_ids = {i[2]}
                ELSE last'.result = "Forbidden" /\ last'.task_ids = {}]_vars

C19_Witness ==
    /\ last.op = "get_task" /\ last.result = "Forbidden"
    /\ VisibleTasks("u1") # {}
    /\ VisibleTasks("u1") # DOMAIN tasks
    /\ \E t \in VisibleTasks("u1") : tasks[t].created_by # "u1"

\* C17 (as stated): in every reachable state, also those reached by
\* interleaved create and rename requests, no two tasks have the same title.
C17_UniqueTitles ==
    \A t1, t2 \in DOMAIN tasks : t1 # t2 => tasks[t1].title # tasks[t2].title

\* C21 (as stated): once completed_at of an assignment is set, no later
\* step clears it or leaves the assignment with completed_labels below its
\* span.
C21_NoWayBack ==
    [][\A id \in DOMAIN task_assignments :
          (task_assignments[id].completed_at # NULL
           /\ id \in DOMAIN task_assignments')
          => /\ task_assignments'[id].completed_at # NULL
             /\ task_assignments'[id].completed_labels
                   >= Span(task_assignments'[id])]_vars

\* the request was turned away and no table changed
Rejected == last'.result # "ok" /\ StoreUnchanged

\* C22: task create, update and delete, assignment creation, assignment
\* status change and manual progress override, called by a caller whose
\* profile role is not admin (or who has no profile), are rejected and
\* leave the stored tasks, assignments and responses unchanged.
C22_AdminOnly ==
    [][\A c \in UserIds : ~IsAdmin(c) =>
          /\ \A title \in Titles :
                /\ (last'.op = "create_task" /\ create_task(c, title))
                   => Rejected
                /\ (last'.op = "create_task_with_questions"
                    /\ create_task_with_questions(c, title)) => Rejected
                /\ \A t \in TaskIds :
                      (last'.op = "update_task" /\ update_task(c, t, title))
                      => Rejected
          /\ \A t \in TaskIds :
                (last'.op = "delete_task" /\ delete_task(c, t)) => Rejected
          /\ \A i \in AssignInputs :
                (last'.op = "assign" /\ assign_task(c, i[2], i[3], i[4], i[5]))
                => Rejected
          /\ \A i \in AdminStatusInputs :
                (last'.op = "status" /\ update_assignment_status(c, i[2], i[3]))
                => Rejected
          /\ \A i \in AdminProgressInputs :
                (last'.op = "progress"
                 /\ update_assignment_progress(c, i[2], i[3])) => Rejected]_vars

C22_Witness ==
    /\ last.op = "progress" /\ last.result = "Forbidden"
    /\ 1 \in DOMAIN task_assignments
    /\ StoredCount(1) = 1
    /\ completed_labels(1) = 1

\* C23 (as stated): between requests (no submission in flight), every
\* assignment's completed_labels equals the number of stored responses that
\* reference it.
C23_NoDrift ==
    \A id \in DOMAIN task_assignments : completed_labels(id) = StoredCount(id)

\* C24: whatever two racing first-time submissions left in completed_labels,
\* a progress update from the responses that runs with no write in between
\* (the service call as a whole, or a worker whose count is still the number
\* of stored rows when it writes) leaves completed_labels equal to the
\* number of stored responses of the assignment.
C24_Converges ==
    [][/\ (/\ last'.op = "recompute" /\ last.op = "none"
           /\ last'.assignment_id \in DOMAIN task_assignments)
          => task_assignments'[last'.assignment_id].completed_labels
                = Cardinality(RowsOf(question_responses', last'.assignment_id))
       /\ \A p \in Workers :
             (/\ requests[p].pc = "progress" /\ requests'[p].pc = "done"
              /\ requests[p].count = StoredCount(requests[p].assignment_id))
             => task_assignments'[requests[p].assignment_id].completed_labels
                   = Cardinality(RowsOf(question_responses',
                                        requests[p].assignment_id))]_vars

\* both submissions of the race have written, one of them counted before
\* the other's row was stored, and the progress update has run since
C24_Witness ==
    /\ last.op = "recompute" /\ last.assignment_id = 1
    /\ requests[1].pc = "done" /\ requests[2].pc = "done"
    /\ requests[1].result = "ok" /\ requests[2].result = "ok"
    /\ requests[1].assignment_id = 1 /\ requests[2].assignment_id = 1
    /\ requests[1].question_id # requests[2].question_id
    /\ requests[1].count = 1 /\ requests[2].count = 2
    /\ StoredCount(1) = 2
    /\ completed_labels(1) = 2

\* C25: a submission that passes its checks makes exactly one write to
\* question_responses (an insert when no row was found for the pair, an
\* update of the row found otherwise); after an insert it makes exactly one
\* more write, of completed_labels of its assignment; after an update it
\* writes nothing more. No other step of a submission writes.
C25_WriteCount ==
    [][\A p \in Workers :
          LET r == requests[p]
              q == requests'[p]
          IN  (q # r) =>
              IF r.pc = "write" /\ r.existing = NULL
              THEN /\ q.pc = "count"
                   /\ \E id \in DOMAIN question_responses' :
                         /\ DOMAIN question_responses'
                               = DOMAIN question_responses \cup {id}
                         /\ id \notin DOMAIN question_responses
                         /\ question_responses'[id].task_assignment_id
                               = r.assignment_id
                         /\ question_responses'[id].question_id = r.question_id
                   /\ \A o \in DOMAIN question_responses :
                         question_responses'[o] = question_responses[o]
                   /\ UNCHANGED <<tasks, task_assignments>>
              ELSE IF r.pc = "write"
              THEN /\ q.pc = "done" /\ q.result = "ok"
                   /\ DOMAIN question_responses' = DOMAIN question_responses
                   /\ \A o \in DOMAIN question_responses \ {r.existing} :
                         question_responses'[o] = question_responses[o]
                   /\ question_responses'[r.existing].responses = r.responses
                   /\ UNCHANGED <<tasks, task_assignments>>
              ELSE IF r.pc = "count"
              THEN q.pc = "progress" /\ StoreUnchanged
              ELSE IF r.pc = "progress"
              THEN /\ q.pc = "done" /\ q.result = "ok"
                   /\ DOMAIN task_assignments' = DOMAIN task_assignments
                   /\ \A a \in DOMAIN task_assignments :
                         task_assignments'[a] =
                            IF a = r.assignment_id
                            THEN [task_assignments[a] EXCEPT
                                    !.completed_labels = r.count]
                            ELSE task_assignments[a]
                   /\ UNCHANGED <<tasks, question_responses>>
              ELSE /\ StoreUnchanged
                   /\ q.pc \in {"lookup", "write", "done", "idle"}
                   /\ (r.pc = "lookup" => q.pc = "write")
                   /\ (r.pc = "done" => q.pc = "idle")]_vars

\* one worker has finished a first-time submission, the other a resubmission
C25_Witness ==
    /\ requests[1].pc = "done" /\ requests[1].result = "ok"
    /\ requests[1].existing = NULL /\ requests[1].count = 1
    /\ requests[2].pc = "done" /\ requests[2].result = "ok"
    /\ requests[2].existing # NULL
    /\ requests[2].assignment_id = requests[1].assignment_id
    /\ StoredCount(requests[1].assignment_id) = 1
    /\ completed_labels(requests[1].assignment_id) = 1

\* C29 (as stated): for every assignment, the number of stored responses
\* that reference it and its completed_labels are both at most its span.
C29_WithinSpan ==
    \A id \in DOMAIN task_assignments :
       /\ StoredCount(id) <= Span(task_assignments[id])
       /\ completed_labels(id) <= Span(task_assignments[id])

\* C26: when the count read or the write of the progress update raises
\* after a first-time response was inserted, the submission still returns
\* success, no table changes (completed_labels keeps its value) and the
\* inserted row is stored.
C26_ProgressBestEffort ==
    [][\A p \in Workers :
          (requests[p].pc \in {"count", "progress"} /\ store_error(p))
          => /\ requests'[p].pc = "done" /\ requests'[p].result = "ok"
             /\ StoreUnchanged
             /\ \E r \in DOMAIN question_responses' :
                   /\ question_responses'[r].task_assignment_id
                         = requests[p].assignment_id
                   /\ question_responses'[r].question_id
                         = requests[p].question_id]_vars

\* a first-time submission has returned success although its count read
\* raised: its row is stored and completed_labels is still 0
C26_Witness ==
    /\ requests[1].pc = "done" /\ requests[1].result = "ok"
    /\ requests[1].assignment_id = 1 /\ requests[1].existing = NULL
    /\ requests[1].count = 0
    /\ requests[2].pc = "idle"
    /\ StoredCount(1) = 1
    /\ completed_labels(1) = 0

\* the failures a submission reports to its caller
SubmitErrors ==
    {"Unauthorized", "InvalidAnswer", "NoAssignment", "AssignmentInactive",
     "AssignmentComplete", "ExceedsLimit", "OutOfRange", "StorageError"}

\* C27: a submission that returns an error has written nothing: the step
\* that ends it in an error changes no table and is taken before the write
\* of the response has taken effect, and no earlier step of a submission
\* changes a table.
C27_ErrorWritesNothing ==
    [][\A p \in Workers :
          LET r == requests[p]
              q == requests'[p]
          IN  /\ (q # r /\ q.pc = "done" /\ q.result # "ok")
                 => /\ q.result \in SubmitErrors
                    /\ StoreUnchanged
                    /\ r.pc \in {"idle", "lookup", "write"}
              /\ (q # r /\ r.pc \in {"idle", "lookup"}) => StoreUnchanged]_vars

\* the update of a resubmission raised: the row stored keeps the answer of
\* the first submission, completed_labels its value
C27_Witness ==
    /\ requests[1].pc = "done" /\ requests[1].result = "StorageError"
    /\ requests[1].existing # NULL
    /\ requests[1].existing \in DOMAIN question_responses
    /\ question_responses[requests[1].existing].responses # requests[1].responses
    /\ StoredCount(requests[1].assignment_id) = 1
    /\ completed_labels(requests[1].assignment_id) = 1

\* every response references a stored assignment, every assignment a
\* stored task
RefIntegrity ==
    /\ \A r \in DOMAIN question_responses :
          question_responses[r].task_assignment_id \in DOMAIN task_assignments
    /\ \A a \in DOMAIN task_assignments :
          task_assignments[a].task_id \in DOMAIN tasks

\* C28: a delete removes children first: a step that removes assignments
\* finds no response that references one of them, and the step that removes
\* the task finds no assignment of it; so in every state of a delete, also
\* after it has stopped on a storage error, every response references a
\* stored assignment and every assignment a stored task.
C28_ChildrenFirst ==
    /\ []RefIntegrity
    /\ [][/\ \A a \in DOMAIN task_assignments \ DOMAIN task_assignments' :
                \A r \in DOMAIN question_responses :
                   question_responses[r].task_assignment_id # a
          /\ \A t \in DOMAIN tasks \ DOMAIN tasks' :
                \A a \in DOMAIN task_assignments :
                   task_assignments[a].task_id # t]_vars

\* a delete has stopped on a storage error after it removed the responses
\* and the assignments of the task: the task is still stored
C28_Witness ==
    /\ requests[1].pc = "done" /\ requests[1].result = "StorageError"
    /\ requests[2].pc = "idle"
    /\ next_assignment_id = 2 /\ next_response_id = 2
    /\ DOMAIN task_assignments = {}
    /\ DOMAIN question_responses = {}
    /\ "t1" \in DOMAIN tasks

\* C30 (as stated): whatever the interleaving of a delete with assignment
\* creations and submissions, once every request has finished every
\* response references a stored assignment and every assignment a stored
\* task.
C30_IntegrityAfterRace ==
    (last = NoCall /\ \A p \in Workers : requests[p].pc \in {"idle", "done"})
    => RefIntegrity

====
